---- MODULE Spec2Model ----
(***************************************************************************)
(* Model of the MAC-compare tool: the snapshot builder (CreateEvent in     *)
(* workers.py), the snapshot comparator (CompareEvent in workers.py) and   *)
(* the parts of the form (ui.py) that start them and receive their         *)
(* signals.                                                                *)
(*                                                                         *)
(* Python values are represented as follows.                               *)
(*   - a dict whose iteration order matters is a sequence of <<key,value>> *)
(*     pairs with pairwise distinct keys, in insertion order;              *)
(*   - a dict with a fixed set of string keys (an endpoint record, a       *)
(*     report cell) is a function on those strings;                        *)
(*   - a str that the code inspects character by character (interface      *)
(*     names, MAC addresses, OUI keys) is a sequence of one-character      *)
(*     strings; any other str is a TLA+ string;                            *)
(*   - a dict key that may be an int or a str is tagged: <<"int", n>> or   *)
(*     <<"str", s>>.                                                       *)
(***************************************************************************)
EXTENDS Integers, Sequences, FiniteSets, TLC

(***************************************************************************)
(* Bounds of the model.                                                    *)
(***************************************************************************)
\* longest device list the form supplies
MaxDevices == 2
\* number of snapshot creations in one behaviour
MaxCreates == 2
\* last minute the wall clock reaches
MaxClock == 1

\* the longest interface name that is normalized
MaxIfaceLen == 4

\* the calls of normalize_iface made on one name
MaxCalls == 2

\* rows selected for one Delete
MaxSelected == 2

(***************************************************************************)
(* Ordered dicts.                                                          *)
(*                                                                         *)
(* Throughout, a value that is used several times is bound by a quantifier *)
(* or a set constructor over a singleton set (x \in {e}) rather than by    *)
(* LET, so that it is computed once.                                       *)
(***************************************************************************)
DictKeys(d) == [i \in 1..Len(d) |-> d[i][1]]

DictValues(d) == [i \in 1..Len(d) |-> d[i][2]]

DictHas(d, k) == \E i \in 1..Len(d) : d[i][1] = k

DictIndex(d, k) == CHOOSE i \in 1..Len(d) : d[i][1] = k

DictGet(d, k) == d[DictIndex(d, k)][2]

\* d[k] = v : an existing key keeps its position, a new key goes last
DictSet(d, k, v) ==
    IF DictHas(d, k)
    THEN [d EXCEPT ![DictIndex(d, k)] = <<k, v>>]
    ELSE Append(d, <<k, v>>)

SeqToSet(s) == {s[i] : i \in 1..Len(s)}

(***************************************************************************)
(* Character strings.                                                      *)
(***************************************************************************)
UpperChars == <<"A","B","C","D","E","F","G","H","I","J","K","L","M",
                "N","O","P","Q","R","S","T","U","V","W","X","Y","Z">>

LowerChars == <<"a","b","c","d","e","f","g","h","i","j","k","l","m",
                "n","o","p","q","r","s","t","u","v","w","x","y","z">>

DigitChars == <<"0","1","2","3","4","5","6","7","8","9">>

LowerOf ==
    [c \in SeqToSet(UpperChars) |->
        LowerChars[CHOOSE i \in 1..Len(UpperChars) : UpperChars[i] = c]]

UpperOf ==
    [c \in SeqToSet(LowerChars) |->
        UpperChars[CHOOSE i \in 1..Len(LowerChars) : LowerChars[i] = c]]

ToLower(c) == IF c \in DOMAIN LowerOf THEN LowerOf[c] ELSE c

ToUpper(c) == IF c \in DOMAIN UpperOf THEN UpperOf[c] ELSE c

DigitSet == SeqToSet(DigitChars)

IsDigit(c) == c \in DigitSet

IsSpace(c) == c = " "

\* re.search('^' + p, s)
StartsWith(s, p) ==
    /\ Len(s) >= Len(p)
    /\ \A i \in 1..Len(p) : s[i] = p[i]

\* re.search('^' + p, s, re.IGNORECASE)
StartsWithIgnoreCase(s, p) ==
    /\ Len(s) >= Len(p)
    /\ \A i \in 1..Len(p) : ToLower(s[i]) = ToLower(p[i])

\* str(n) for a non-negative int, as a TLA+ string
RECURSIVE IntToStr(_)
IntToStr(n) ==
    IF n < 10 THEN DigitChars[n + 1]
    ELSE IntToStr(n \div 10) \o DigitChars[(n % 10) + 1]

(***************************************************************************)
(* CreateEvent.normalize_iface                                             *)
(***************************************************************************)
labels == << <<"T","e">>, <<"G","i">>, <<"F","a">>, <<"E","t","h">>,
             <<"L","o">>, <<"V","l">>, <<"T","w","o">>, <<"T","w","e">> >>

HasDigit(iface) == \E i \in 1..Len(iface) : IsDigit(iface[i])

\* the whole token that holds the first digit, as r'(\S*\d+\S*)' takes it
PortIdWholeToken(iface) ==
    LET first  == CHOOSE i \in 1..Len(iface) :
                     /\ IsDigit(iface[i])
                     /\ \A j \in 1..(i - 1) : ~IsDigit(iface[j])
        before == {j \in 1..first : IsSpace(iface[j])}
        start  == IF before = {} THEN 1
                  ELSE (CHOOSE j \in before : \A k \in before : j >= k) + 1
        stops  == {j \in first..Len(iface) : IsSpace(iface[j])}
        last   == IF stops = {} THEN Len(iface)
                  ELSE (CHOOSE j \in stops : \A k \in stops : j <= k) - 1
    IN  SubSeq(iface, start, last)

\* re.search(r'(\d+\S*)', iface).group(0): from the first digit up to the
\* first whitespace after it (or the end)
PortId(iface) ==
    LET first == CHOOSE i \in 1..Len(iface) :
                    /\ IsDigit(iface[i])
                    /\ \A j \in 1..(i - 1) : ~IsDigit(iface[j])
        stops == {j \in first..Len(iface) : IsSpace(iface[j])}
        last  == IF stops = {} THEN Len(iface)
                 ELSE (CHOOSE j \in stops : \A k \in stops : j <= k) - 1
    IN  SubSeq(iface, first, last)

LabelMatches(iface, i) == StartsWithIgnoreCase(iface, labels[i])

AnyLabelMatches(iface) == \E i \in 1..Len(labels) : LabelMatches(iface, i)

\* the first label of the list that matches: the loop returns there
FirstLabel(iface) ==
    labels[CHOOSE i \in 1..Len(labels) :
              /\ LabelMatches(iface, i)
              /\ \A j \in 1..(i - 1) : ~LabelMatches(iface, j)]

\* the call raises AttributeError when a label matches and the name holds
\* no digit (re.search returns None)
NormalizeIfaceRaises(iface) ==
    AnyLabelMatches(iface) /\ ~HasDigit(iface)

normalize_iface(iface) ==
    IF AnyLabelMatches(iface)
    THEN FirstLabel(iface) \o PortId(iface)
    ELSE iface

(***************************************************************************)
(* CreateEvent.get_mac_vendor                                              *)
(***************************************************************************)
MacSeparators == {".", "-", ":"}

RECURSIVE StripSeparators(_)
StripSeparators(mac) ==
    IF mac = <<>> THEN <<>>
    ELSE IF Head(mac) \in MacSeparators THEN StripSeparators(Tail(mac))
    ELSE <<Head(mac)>> \o StripSeparators(Tail(mac))

OuiLen == 6

NormalizedOui(mac) ==
    LET s == StripSeparators(mac)
        u == [i \in 1..Len(s) |-> ToUpper(s[i])]
    IN  SubSeq(u, 1, IF Len(u) < OuiLen THEN Len(u) ELSE OuiLen)

get_mac_vendor(oui, mac) ==
    IF DictHas(oui, NormalizedOui(mac))
    THEN DictGet(oui, NormalizedOui(mac))
    ELSE "Unknown"

(***************************************************************************)
(* The environment: what the devices, the resolver and the registry        *)
(* answer.  The tables are the parsed output of the three commands of      *)
(* create_task, keyed as the parser keys them.                             *)
(***************************************************************************)
M1 == <<"a","a","b","b",".","c","c","0","0",".","0","0","0","1">>

M2 == <<"a","a","b","b",".","c","c","0","0",".","0","0","0","2">>

M3 == <<"0","0","1","1",".","2","2","0","0",".","0","0","0","3">>

Devices == {"SW1", "SW2"}

\* show mac address / show ip arp / show interface status, first answer
ReplyA ==
    [mac_data |->
        << <<M2, [ports |-> <<"G","i","1">>, vlan_id |-> "10"]>>,
           <<M1, [ports |-> <<"G","i","2">>, vlan_id |-> "10"]>>,
           <<M3, [ports |-> <<"P","o","1">>, vlan_id |-> "10"]>> >>,
     arp_data |->
        << <<M1, [ip_address |-> "10.0.0.1"]>> >>,
     iface_data |->
        << <<<<"G","i","g","1">>, [speed |-> "a-1000", duplex |-> "a-full"]>>,
           <<<<"g","i","2">>, [speed |-> "a-100", duplex |-> "a-half"]>> >>]

\* the same device asked later: M2 is gone, M3 moved to a physical port,
\* M1 changed vlan and speed and has no ARP entry
ReplyB ==
    [mac_data |->
        << <<M3, [ports |-> <<"T","e","1">>, vlan_id |-> "20"]>>,
           <<M1, [ports |-> <<"G","i","2">>, vlan_id |-> "20"]>> >>,
     arp_data |-> << >>,
     iface_data |->
        << <<<<"G","i","2">>, [speed |-> "a-1000", duplex |-> "a-half"]>> >>]

Replies == {ReplyA, ReplyB}

\* handler.base_prompt of the session to a device
BasePrompt(device) == device

\* socket.getfqdn
getfqdn(ip) == IF ip = "10.0.0.1" THEN "host1.example" ELSE ip

\* the cached registry and the registry parsed from the remote text
OuiCached == << <<<<"A","A","B","B","C","C">>, "Cisco">> >>

OuiRemote == << <<<<"A","A","B","B","C","C">>, "Cisco">>,
                <<<<"0","0","1","1","2","2">>, "Acme">> >>

(***************************************************************************)
(* CreateEvent.create_task, lines 102-130: the endpoint data of one        *)
(* device, computed from the three tables.                                 *)
(***************************************************************************)
PhysicalPrefixes == << <<"T","e">>, <<"G","i">>, <<"F","a">>, <<"E","t","h">>,
                       <<"T","w","o">>, <<"T","w","e">> >>

\* re.search(r'^(Te|Gi|Fa|Eth|Two|Twe)', ports)
IsPhysicalPort(ports) ==
    \E i \in 1..Len(PhysicalPrefixes) : StartsWith(ports, PhysicalPrefixes[i])

\* the retained rows of the MAC table, in table order
RECURSIVE RetainedRows(_)
RetainedRows(mac_data) ==
    IF mac_data = <<>> THEN <<>>
    ELSE IF IsPhysicalPort(Head(mac_data)[2].ports)
         THEN <<Head(mac_data)>> \o RetainedRows(Tail(mac_data))
         ELSE RetainedRows(Tail(mac_data))

\* the inner loop over iface_data: the last matching row wins
RECURSIVE SpeedDuplex(_, _, _)
SpeedDuplex(iface_data, ports, acc) ==
    IF iface_data = <<>> THEN acc
    ELSE SpeedDuplex(Tail(iface_data), ports,
            IF normalize_iface(Head(iface_data)[1]) = normalize_iface(ports)
            THEN [Speed |-> Head(iface_data)[2].speed,
                  Duplex |-> Head(iface_data)[2].duplex]
            ELSE acc)

EndpointOf(device, reply, oui, mac, mac_prop) ==
    LET known == DictHas(reply.arp_data, mac)
        ip    == IF known THEN DictGet(reply.arp_data, mac).ip_address
                 ELSE "Unknown"
    IN  CHOOSE r \in {
        ("Hostname"    :> (IF known THEN getfqdn(ip) ELSE "Unknown")) @@
        ("IP Address"  :> ip) @@
        ("Switch"      :> BasePrompt(device)) @@
        ("Interface"   :> mac_prop.ports) @@
        ("Speed"       :> sd.Speed) @@
        ("Duplex"      :> sd.Duplex) @@
        ("MAC Address" :> mac) @@
        ("Vendor"      :> get_mac_vendor(oui, mac)) @@
        ("Vlan"        :> mac_prop.vlan_id)
        : sd \in {SpeedDuplex(reply.iface_data, mac_prop.ports,
                              [Speed |-> "", Duplex |-> ""])} } : TRUE

\* normalize_iface raises inside the loops for some retained row
EndpointDataRaises(reply) ==
    \E i \in 1..Len(RetainedRows(reply.mac_data)) :
        \E j \in 1..Len(reply.iface_data) :
            \/ NormalizeIfaceRaises(reply.iface_data[j][1])
            \/ NormalizeIfaceRaises(RetainedRows(reply.mac_data)[i][2].ports)

EndpointData(device, reply, oui) ==
    CHOOSE r \in
        {[i \in 1..Len(rows) |->
            <<rows[i][1], EndpointOf(device, reply, oui, rows[i][1], rows[i][2])>>] :
            rows \in {RetainedRows(reply.mac_data)}} : TRUE

(***************************************************************************)
(* CreateEvent.refactor_data                                               *)
(***************************************************************************)
PyInt(n) == <<"int", n>>

PyStr(t) == <<"str", t>>

\* self.data['endpoints'].get(device, {})
EndpointsGet(endpoints, device) ==
    IF DictHas(endpoints, PyStr(device))
    THEN DictGet(endpoints, PyStr(device))
    ELSE <<>>

\* one pass of the inner loop body, lines 162-181
RefactorItem(acc, mac, prop) ==
    IF DictHas(acc.mac_to_index, mac)
    THEN LET idx == DictGet(acc.mac_to_index, mac)
             old == DictGet(acc.refactored, PyInt(idx))
             new == [old EXCEPT
                       !["Switch"]    = Append(@, prop["Switch"]),
                       !["Interface"] = Append(@, prop["Interface"]),
                       !["Speed"]     = Append(@, prop["Speed"]),
                       !["Duplex"]    = Append(@, prop["Duplex"])]
         IN  [acc EXCEPT !.refactored = DictSet(@, PyInt(idx), new)]
    ELSE LET idx == acc.ep_idx + 1
             new == ("MAC Address" :> prop["MAC Address"]) @@
                    ("Vendor"      :> prop["Vendor"]) @@
                    ("Hostname"    :> prop["Hostname"]) @@
                    ("IP Address"  :> prop["IP Address"]) @@
                    ("Vlan"        :> prop["Vlan"]) @@
                    ("Switch"      :> <<prop["Switch"]>>) @@
                    ("Interface"   :> <<prop["Interface"]>>) @@
                    ("Speed"       :> <<prop["Speed"]>>) @@
                    ("Duplex"      :> <<prop["Duplex"]>>)
         IN  [ep_idx       |-> idx,
              mac_to_index |-> DictSet(acc.mac_to_index, mac, idx),
              refactored   |-> DictSet(acc.refactored, PyInt(idx), new)]

RECURSIVE RefactorItems(_, _)
RefactorItems(acc, items) ==
    IF items = <<>> THEN acc
    ELSE CHOOSE r \in
            {RefactorItems(a, Tail(items)) :
                a \in {RefactorItem(acc, Head(items)[1], Head(items)[2])}} : TRUE

RECURSIVE RefactorDevices(_, _, _)
RefactorDevices(acc, devs, endpoints) ==
    IF devs = <<>> THEN acc
    ELSE CHOOSE r \in
            {RefactorDevices(a, Tail(devs), endpoints) :
                a \in {RefactorItems(acc, EndpointsGet(endpoints, Head(devs)))}} : TRUE

\* the completion order of the tasks: the insertion order of the results
RefactorOrderByCompletion(devs, endpoints) ==
    [i \in 1..Len(endpoints) |-> endpoints[i][1][2]]

\* the outer loop of line 160 runs over self.devices
RefactorOrder(devs, endpoints) == devs

refactor_data(devs, endpoints) ==
    RefactorDevices([ep_idx |-> 0, mac_to_index |-> <<>>, refactored |-> <<>>],
                    RefactorOrder(devs, endpoints), endpoints).refactored

(***************************************************************************)
(* json.dump / json.load of the snapshot, and the artifact's name          *)
(***************************************************************************)
\* a key written as it is: no conversion
JsonKeyUnconverted(k) == k

\* json.dump writes an int key as its decimal string
JsonKey(k) == IF k[1] = "int" THEN PyStr(IntToStr(k[2])) ELSE k

\* the document json.dump writes for self.data
JsonDump(d) ==
    [endpoints |-> [i \in 1..Len(d.endpoints) |->
                       <<JsonKey(d.endpoints[i][1]), d.endpoints[i][2]>>]]

\* the value json.load returns for a document: objects become dicts in
\* document order
JsonLoad(doc) == doc

\* datetime.now().strftime('%Y-%m-%d_%H.%M') at minute `minute` of the hour
strftime(minute) ==
    <<"2","0","2","6","-","1","1","-","0","5","_","1","0",".">> \o
    <<DigitChars[(minute \div 10) + 1], DigitChars[(minute % 10) + 1]>>

\* f"[{type}]_[{name}]_[{timestamp}].json"
SnapshotFileName(type, name, timestamp) ==
    <<"[">> \o type \o <<"]","_","[">> \o name \o <<"]","_","[">> \o
    timestamp \o <<"]",".","j","s","o","n">>

\* list(filter(None, text.splitlines()))
RECURSIVE FilterNone(_)
FilterNone(lines) ==
    IF lines = <<>> THEN <<>>
    ELSE IF Head(lines) = "" THEN FilterNone(Tail(lines))
    ELSE <<Head(lines)>> \o FilterNone(Tail(lines))

(***************************************************************************)
(* State.                                                                  *)
(***************************************************************************)
VARIABLES
    \* the form (ui.py)
    name_line_edit,     \* text of the name field
    type_combobox,      \* current text of the type box
    device_text_edit,   \* lines of the device field
    create_button,      \* TRUE when the Create button is enabled
    snapshots_table,    \* rows of the snapshots table
    ui_queue,           \* signals queued for the UI thread
    \* the environment
    files,              \* the Snapshots directory: file name -> document
    clock,              \* minute of the wall clock
    vendor_file,        \* macvendor_registry.json
    module_age,         \* days since workers.py was modified
    \* the CreateEvent worker
    creates,            \* workers started so far
    pc,                 \* position of the worker's run()
    self_name, self_type, self_devices,
    data,               \* self.data
    oui_data,           \* self.oui_data
    timestamp,          \* local of save_snapshot
    futures,            \* local of thread_executor: device -> task
    joined,             \* futures already waited for
    task,               \* the submitted tasks, in submission order
    done_order,         \* the tasks in the order they finished
    emitted,            \* add_snapshot_signal emissions of this worker
    \* the CompareEvent worker and what the form keeps for it
    selected,           \* rows selected in the snapshots table, in order
    cpc,                \* position of the comparator's run()
    pre_snapshot_data,  \* self.pre_snapshot_data
    post_snapshot_data, \* self.post_snapshot_data
    compare_data,       \* self.compare_data
    output_report,      \* form.output_report
    report,             \* the data rows of the closed workbook
    report_button,      \* TRUE when the Report button is enabled
    \* the startup scan of Form.__init__
    listing,            \* what os.listdir returned for the Snapshots directory
    scanned,            \* entries of the listing the loop has handled
    \* the registry's remote source
    fetches,            \* GET requests made so far
    \* calls of normalize_iface on a name
    iface,              \* the name
    calls               \* the values returned by the successive calls

form_vars == <<name_line_edit, type_combobox, device_text_edit, create_button,
               snapshots_table, ui_queue>>

env_vars == <<files, clock, vendor_file, module_age>>

run_vars == <<self_name, self_type, self_devices, data, oui_data, timestamp>>

pool_vars == <<futures, joined, task, done_order>>

compare_vars == <<selected, cpc, pre_snapshot_data, post_snapshot_data,
                  compare_data, output_report, report, report_button>>

scan_vars == <<listing, scanned>>

iface_vars == <<iface, calls>>

vars == <<form_vars, env_vars, creates, pc, run_vars, pool_vars, emitted,
          compare_vars, scan_vars, fetches, iface_vars>>

(***************************************************************************)
(* Inputs.                                                                 *)
(***************************************************************************)
Pre == <<"P","r","e">>

Post == <<"P","o","s","t">>

\* the items of type_combobox
Types == {Pre, Post}

\* what the user may have typed into the name field
Names == {<<>>, <<"a">>}

RECURSIVE SeqsUpTo(_, _)
SeqsUpTo(S, n) ==
    IF n = 0 THEN {<<>>}
    ELSE SeqsUpTo(S, n - 1) \cup
         {Append(q, x) : q \in {r \in SeqsUpTo(S, n - 1) : Len(r) = n - 1}, x \in S}

\* what the user may have typed into the device field: device lines, the
\* same device possibly on several lines, possibly after an empty line
DeviceTexts ==
    SeqsUpTo(Devices, MaxDevices) \cup {<<"", d>> : d \in Devices}

\* ThreadPoolExecutor(max_workers=8)
max_workers == 8

\* (datetime.now() - mtime).days > 90
StaleDays == 90

NoFile == [exists |-> FALSE, oui |-> <<>>, age |-> 0]

\* the cache artifact as an earlier run left it, `age` days ago
CachedFile(age) == [exists |-> TRUE, oui |-> OuiCached, age |-> age]

\* the form and its workers as Form.__init__ leaves them, before the scan
FreshForm ==
    /\ name_line_edit = <<>>
    /\ type_combobox = Pre
    /\ device_text_edit = <<>>
    /\ create_button = TRUE
    /\ snapshots_table = <<>>
    /\ ui_queue = <<>>
    /\ pc = "none"
    /\ self_name = <<>>
    /\ self_type = <<>>
    /\ self_devices = <<>>
    /\ data = [endpoints |-> <<>>]
    /\ oui_data = <<>>
    /\ timestamp = <<>>
    /\ futures = <<>>
    /\ joined = 0
    /\ task = <<>>
    /\ done_order = <<>>
    /\ emitted = 0
    /\ selected = <<>>
    /\ cpc = "none"
    /\ pre_snapshot_data = <<>>
    /\ post_snapshot_data = <<>>
    /\ compare_data = <<>>
    /\ output_report = <<>>
    /\ report = <<>>
    /\ report_button = FALSE

\* no snapshot was created and no request was made yet
FreshCounts ==
    /\ clock = 0
    /\ creates = 0
    /\ fetches = 0

\* the Snapshots directory is empty: the scan has nothing to handle
EmptyDirectory ==
    /\ files = <<>>
    /\ listing = <<>>
    /\ scanned = 0

\* normalize_iface is not called on its own
NoCalls ==
    /\ iface = <<>>
    /\ calls = <<>>

Init ==
    /\ FreshForm
    /\ FreshCounts
    /\ EmptyDirectory
    /\ NoCalls
    /\ vendor_file \in {NoFile, CachedFile(0), CachedFile(StaleDays + 1)}
    /\ module_age \in {0, StaleDays + 1}

\* the process is running: an unhandled exception may have ended it
AppAlive == pc # "crashed"

(***************************************************************************)
(* Form.create_start_event                                                 *)
(***************************************************************************)
CreateStart(n, t, lines) ==
    /\ AppAlive
    /\ create_button
    /\ name_line_edit' = n
    /\ type_combobox' = t
    /\ device_text_edit' = lines
    /\ IF n = <<>>
       THEN \* the error box is shown and the handler returns
            UNCHANGED <<create_button, snapshots_table, ui_queue, env_vars,
                        creates, pc, run_vars, pool_vars, emitted>>
       ELSE /\ create_button' = FALSE
            /\ creates' = creates + 1
            \* CreateEvent(self): a new worker object, then start()
            /\ pc' = "run"
            /\ self_name' = <<>>
            /\ self_type' = <<>>
            /\ self_devices' = <<>>
            /\ data' = [endpoints |-> <<>>]
            /\ oui_data' = <<>>
            /\ timestamp' = <<>>
            /\ futures' = <<>>
            /\ joined' = 0
            /\ task' = <<>>
            /\ done_order' = <<>>
            /\ emitted' = 0
            /\ UNCHANGED <<snapshots_table, ui_queue, env_vars>>
    /\ UNCHANGED compare_vars
    /\ UNCHANGED <<scan_vars, fetches, iface_vars>>

(***************************************************************************)
(* CreateEvent.run, lines 38-45                                            *)
(***************************************************************************)
RunInit ==
    /\ pc = "run"
    /\ self_name' = name_line_edit
    /\ self_type' = type_combobox
    /\ self_devices' = FilterNone(device_text_edit)
    /\ data' = [endpoints |-> <<>>]
    /\ pc' = "load_mac_vendor"
    /\ UNCHANGED <<form_vars, env_vars, creates, oui_data, timestamp,
                   pool_vars, emitted>>
    /\ UNCHANGED compare_vars
    /\ UNCHANGED <<scan_vars, fetches, iface_vars>>

\* an exception leaves run(): either the process is ended (PyQt's default
\* for an unhandled exception) or, where the application has installed an
\* exception hook, the thread ends and its finished signal is queued
RunRaises ==
    \/ /\ pc' = "crashed"
       /\ UNCHANGED ui_queue
    \/ /\ pc' = "aborted"
       /\ ui_queue' = Append(ui_queue, [sig |-> "finished"])

(***************************************************************************)
(* CreateEvent.load_mac_vendor                                             *)
(***************************************************************************)
\* lines 209-211: the cache is missing, or workers.py (__file__) was
\* modified more than 90 days ago
NeedsFetch == ~vendor_file.exists \/ module_age > StaleDays

\* lines 216-219: the lines of the text that match "<hex> (base 16) <name>";
\* a text that is not the registry has none
ParsedTexts == {OuiRemote, <<>>}

LoadMacVendor ==
    /\ pc = "load_mac_vendor"
    /\ IF NeedsFetch
       THEN /\ fetches' = fetches + 1
            /\ \/ \* requests.get raises: the exception leaves run()
                  /\ RunRaises
                  /\ UNCHANGED <<vendor_file, oui_data>>
               \/ \* a text is returned, parsed and cached, then read
                  \E parsed \in ParsedTexts :
                     /\ vendor_file' = [exists |-> TRUE, oui |-> parsed, age |-> 0]
                     /\ oui_data' = parsed
                     /\ pc' = "thread_executor"
                     /\ UNCHANGED ui_queue
       ELSE /\ oui_data' = vendor_file.oui
            /\ pc' = "thread_executor"
            /\ UNCHANGED <<vendor_file, ui_queue, fetches>>
    /\ UNCHANGED <<name_line_edit, type_combobox, device_text_edit,
                   create_button, snapshots_table, files, clock, module_age,
                   creates, self_name, self_type, self_devices, data,
                   timestamp, pool_vars, emitted>>
    /\ UNCHANGED compare_vars
    /\ UNCHANGED <<scan_vars, iface_vars>>

(***************************************************************************)
(* CreateEvent.thread_executor and the tasks of its pool                   *)
(***************************************************************************)
Finished(t) == t.st \in {"conn_failed", "raised", "written"}

Running == {i \in 1..Len(task) : task[i].st = "connected"}

\* lines 59-61: executor.submit, one device at a time
Submit ==
    /\ pc = "thread_executor"
    /\ Len(task) < Len(self_devices)
    /\ LET device == self_devices[Len(task) + 1]
       IN  /\ task' = Append(task, [device |-> device, st |-> "queued",
                                    endpoint_data |-> <<>>])
           /\ futures' = DictSet(futures, device, Len(task) + 1)
    /\ UNCHANGED <<form_vars, env_vars, creates, pc, run_vars, joined,
                   done_order, emitted>>
    /\ UNCHANGED compare_vars
    /\ UNCHANGED <<scan_vars, fetches, iface_vars>>

\* create_task, lines 77-95: a worker of the pool takes the task and opens
\* the session; a failure is logged and the task returns
TaskConnect(i) ==
    /\ AppAlive
    /\ task[i].st = "queued"
    /\ Cardinality(Running) < max_workers
    /\ \E ok \in BOOLEAN :
         IF ok
         THEN /\ task' = [task EXCEPT ![i].st = "connected"]
              /\ UNCHANGED done_order
         ELSE /\ task' = [task EXCEPT ![i].st = "conn_failed"]
              /\ done_order' = Append(done_order, i)
    /\ UNCHANGED <<form_vars, env_vars, creates, pc, run_vars, futures,
                   joined, emitted>>
    /\ UNCHANGED compare_vars
    /\ UNCHANGED <<scan_vars, fetches, iface_vars>>

\* create_task, lines 97-132: the three commands are answered, the endpoint
\* data is computed and stored under the device
TaskCollect(i, reply) ==
    /\ AppAlive
    /\ task[i].st = "connected"
    /\ IF EndpointDataRaises(reply)
       THEN /\ task' = [task EXCEPT ![i].st = "raised"]
            /\ UNCHANGED data
       ELSE \E endpoint_data \in {EndpointData(task[i].device, reply, oui_data)} :
                /\ task' = [task EXCEPT ![i].st = "written",
                                        ![i].endpoint_data = endpoint_data]
                /\ data' = [data EXCEPT !.endpoints =
                              DictSet(@, PyStr(task[i].device), endpoint_data)]
    /\ done_order' = Append(done_order, i)
    /\ UNCHANGED <<form_vars, env_vars, creates, pc, self_name, self_type,
                   self_devices, oui_data, timestamp, futures, joined, emitted>>
    /\ UNCHANGED compare_vars
    /\ UNCHANGED <<scan_vars, fetches, iface_vars>>

\* create_task, lines 98-100: a command raises; the exception is kept in
\* the task's future
TaskRaise(i) ==
    /\ AppAlive
    /\ task[i].st = "connected"
    /\ task' = [task EXCEPT ![i].st = "raised"]
    /\ done_order' = Append(done_order, i)
    /\ UNCHANGED <<form_vars, env_vars, creates, pc, run_vars, futures,
                   joined, emitted>>
    /\ UNCHANGED compare_vars
    /\ UNCHANGED <<scan_vars, fetches, iface_vars>>

\* a future whose exception is raised again in the waiting thread
JoinPropagatesException(t) == t.st = "raised"

\* lines 63-66: future.exception() returns the exception, which is logged
JoinPropagates(t) == FALSE

\* lines 63-66: wait for the next future of the dict
Join ==
    /\ pc = "thread_executor"
    /\ Len(task) = Len(self_devices)
    /\ joined < Len(futures)
    /\ LET t == task[futures[joined + 1][2]]
       IN  /\ Finished(t)
           /\ IF JoinPropagates(t)
              THEN RunRaises /\ UNCHANGED joined
              ELSE /\ joined' = joined + 1
                   /\ UNCHANGED <<pc, ui_queue>>
    /\ UNCHANGED <<name_line_edit, type_combobox, device_text_edit,
                   create_button, snapshots_table, env_vars, creates,
                   run_vars, futures, task, done_order, emitted>>
    /\ UNCHANGED compare_vars
    /\ UNCHANGED <<scan_vars, fetches, iface_vars>>

\* a shutdown that waits only for the futures kept in the dict
ShutdownWaitsForFutures(tasks, futs) ==
    \A k \in 1..Len(futs) : Finished(tasks[futs[k][2]])

\* line 57, the end of the with block: shutdown(wait=True) returns when
\* every submitted task has finished
ShutdownWaits(tasks, futs) ==
    \A i \in 1..Len(tasks) : Finished(tasks[i])

PoolExit ==
    /\ pc = "thread_executor"
    /\ Len(task) = Len(self_devices)
    /\ joined = Len(futures)
    /\ ShutdownWaits(task, futures)
    /\ pc' = "refactor_data"
    /\ UNCHANGED <<form_vars, env_vars, creates, run_vars, pool_vars, emitted>>
    /\ UNCHANGED compare_vars
    /\ UNCHANGED <<scan_vars, fetches, iface_vars>>

(***************************************************************************)
(* CreateEvent.refactor_data and save_snapshot                             *)
(***************************************************************************)
RefactorData ==
    /\ pc = "refactor_data"
    /\ data' = [data EXCEPT !.endpoints = refactor_data(self_devices, @)]
    /\ pc' = "save_snapshot"
    /\ UNCHANGED <<form_vars, env_vars, creates, self_name, self_type,
                   self_devices, oui_data, timestamp, pool_vars, emitted>>
    /\ UNCHANGED compare_vars
    /\ UNCHANGED <<scan_vars, fetches, iface_vars>>

\* lines 194-197: the artifact is written, replacing a file of that name
SaveWrite ==
    /\ pc = "save_snapshot"
    /\ timestamp' = strftime(clock)
    /\ files' = (SnapshotFileName(self_type, self_name, strftime(clock))
                    :> JsonDump(data)) @@ files
    /\ pc' = "emit"
    /\ UNCHANGED <<form_vars, clock, vendor_file, module_age, creates,
                   self_name, self_type, self_devices, data, oui_data,
                   pool_vars, emitted>>
    /\ UNCHANGED compare_vars
    /\ UNCHANGED <<scan_vars, fetches, iface_vars>>

\* lines 198-202: add_snapshot_signal.emit
SaveEmit ==
    /\ pc = "emit"
    /\ ui_queue' = Append(ui_queue,
                     [sig |-> "add_snapshot",
                      slot |-> [timestamp |-> timestamp, type |-> self_type,
                                name |-> self_name]])
    /\ emitted' = emitted + 1
    /\ pc' = "return"
    /\ UNCHANGED <<name_line_edit, type_combobox, device_text_edit,
                   create_button, snapshots_table, env_vars, creates,
                   run_vars, pool_vars>>
    /\ UNCHANGED compare_vars
    /\ UNCHANGED <<scan_vars, fetches, iface_vars>>

\* run() returns: the thread's finished signal is queued
RunReturn ==
    /\ pc = "return"
    /\ ui_queue' = Append(ui_queue, [sig |-> "finished"])
    /\ pc' = "finished"
    /\ UNCHANGED <<name_line_edit, type_combobox, device_text_edit,
                   create_button, snapshots_table, env_vars, creates,
                   run_vars, pool_vars, emitted>>
    /\ UNCHANGED compare_vars
    /\ UNCHANGED <<scan_vars, fetches, iface_vars>>

(***************************************************************************)
(* The slots of the form, run by the UI thread in the order the signals    *)
(* were queued.                                                            *)
(***************************************************************************)
\* Form.add_snapshot
AddSnapshot ==
    /\ AppAlive
    /\ ui_queue # <<>>
    /\ Head(ui_queue).sig = "add_snapshot"
    /\ snapshots_table' = Append(snapshots_table,
                             [name |-> Head(ui_queue).slot.name,
                              type |-> Head(ui_queue).slot.type,
                              timestamp |-> Head(ui_queue).slot.timestamp])
    /\ ui_queue' = Tail(ui_queue)
    /\ UNCHANGED <<name_line_edit, type_combobox, device_text_edit,
                   create_button, env_vars, creates, pc, run_vars, pool_vars,
                   emitted>>
    /\ UNCHANGED compare_vars
    /\ UNCHANGED <<scan_vars, fetches, iface_vars>>

\* Form.create_finish_event
CreateFinish ==
    /\ AppAlive
    /\ ui_queue # <<>>
    /\ Head(ui_queue).sig = "finished"
    /\ create_button' = TRUE
    /\ ui_queue' = Tail(ui_queue)
    /\ UNCHANGED <<name_line_edit, type_combobox, device_text_edit,
                   snapshots_table, env_vars, creates, pc, run_vars,
                   pool_vars, emitted>>
    /\ UNCHANGED compare_vars
    /\ UNCHANGED <<scan_vars, fetches, iface_vars>>

\* a minute passes
Tick ==
    /\ clock < MaxClock
    /\ clock' = clock + 1
    /\ UNCHANGED <<form_vars, files, vendor_file, module_age, creates, pc,
                   run_vars, pool_vars, emitted>>
    /\ UNCHANGED compare_vars
    /\ UNCHANGED <<scan_vars, fetches, iface_vars>>

(***************************************************************************)
(* CompareEvent: the pure part.  A cell value that may be a str or a list  *)
(* is tagged <<"str", s>> or <<"list", l>>.                                *)
(***************************************************************************)
PyList(l) == <<"list", l>>

\* the keys of self.cell_format
cell_format == {"ftNormal", "ftBad", "ftGood", "ftInfo"}

Cell(value, style) == [value |-> value, cellFormat |-> style]

\* the unknown placeholder '???'
Placeholder == PyStr("???")

\* the dict comprehension of get_mac_data: a later row of the same MAC
\* replaces the value and keeps the position
RECURSIVE ByMacAddress(_, _)
ByMacAddress(acc, values) ==
    IF values = <<>> THEN acc
    ELSE CHOOSE r \in
            {ByMacAddress(a, Tail(values)) :
                a \in {DictSet(acc, Head(values)["MAC Address"], Head(values))}} : TRUE

get_mac_data(pre, post) ==
    <<ByMacAddress(<<>>, DictValues(pre)), ByMacAddress(<<>>, DictValues(post))>>

\* lists matched by their members, whatever their order
match_attribute_unordered(pre, post) ==
    Cell(post, IF (IF pre[1] = "list"
                   THEN SeqToSet(pre[2]) = SeqToSet(post[2])
                   ELSE pre = post)
               THEN "ftNormal" ELSE "ftBad")

match_attribute(pre, post) ==
    Cell(post, IF pre = post THEN "ftNormal" ELSE "ftBad")

\* lines 323-328: `if post:` for the value of dict.get, a record or None
Observation(found) ==
    IF found THEN Cell(PyStr("MAC Learnt"), "ftGood")
    ELSE Cell(PyStr("MAC Not Learnt"), "ftBad")

\* lines 333-340
PreSide(pre) ==
    ("Pre-Device"    :> Cell(PyList(pre["Switch"]), "ftNormal")) @@
    ("Pre-Interface" :> Cell(PyList(pre["Interface"]), "ftNormal")) @@
    ("Pre-Speed"     :> Cell(PyList(pre["Speed"]), "ftNormal")) @@
    ("Pre-Duplex"    :> Cell(PyList(pre["Duplex"]), "ftNormal")) @@
    ("Pre-Vlan"      :> Cell(PyStr(pre["Vlan"]), "ftNormal")) @@
    ("Pre-IP"        :> Cell(PyStr(pre["IP Address"]), "ftNormal")) @@
    ("Pre-Hostname"  :> Cell(PyStr(pre["Hostname"]), "ftNormal"))

\* Post cells left blank
PostSideBlank ==
    ("Post-Device"    :> Cell(PyStr(""), "ftBad")) @@
    ("Post-Interface" :> Cell(PyStr(""), "ftBad")) @@
    ("Post-Speed"     :> Cell(PyStr(""), "ftBad")) @@
    ("Post-Duplex"    :> Cell(PyStr(""), "ftBad")) @@
    ("Post-Vlan"      :> Cell(PyStr(""), "ftBad")) @@
    ("Post-IP"        :> Cell(PyStr(""), "ftBad")) @@
    ("Post-Hostname"  :> Cell(PyStr(""), "ftBad"))

\* lines 341-347
PostSideUnknown ==
    ("Post-Device"    :> Cell(Placeholder, "ftBad")) @@
    ("Post-Interface" :> Cell(Placeholder, "ftBad")) @@
    ("Post-Speed"     :> Cell(Placeholder, "ftBad")) @@
    ("Post-Duplex"    :> Cell(Placeholder, "ftBad")) @@
    ("Post-Vlan"      :> Cell(Placeholder, "ftBad")) @@
    ("Post-IP"        :> Cell(Placeholder, "ftBad")) @@
    ("Post-Hostname"  :> Cell(Placeholder, "ftBad"))

\* lines 351-359: the update of a record whose MAC is in both snapshots
PostSideLearnt(pre, post) ==
    ("Post-Device"    :> Cell(PyList(post["Switch"]), "ftNormal")) @@
    ("Post-Interface" :> Cell(PyList(post["Interface"]), "ftNormal")) @@
    ("Post-Speed"     :> match_attribute(PyList(pre["Speed"]), PyList(post["Speed"]))) @@
    ("Post-Duplex"    :> match_attribute(PyList(pre["Duplex"]), PyList(post["Duplex"]))) @@
    ("Post-Vlan"      :> match_attribute(PyStr(pre["Vlan"]), PyStr(post["Vlan"]))) @@
    ("Post-IP"        :> match_attribute(PyStr(pre["IP Address"]), PyStr(post["IP Address"]))) @@
    ("Post-Hostname"  :> match_attribute(PyStr(pre["Hostname"]), PyStr(post["Hostname"])))

\* lines 321-359: the record of one MAC of the pre snapshot
PreRecord(mac, pre, post_data) ==
    LET found == DictHas(post_data, mac)
        first == ("Address"     :> Cell(PyStr(mac), "ftNormal")) @@
                 ("Observation" :> Observation(found)) @@
                 ("Vendor"      :> Cell(PyStr(pre["Vendor"]), "ftNormal")) @@
                 PreSide(pre) @@ PostSideUnknown
    IN  IF found
        THEN PostSideLearnt(pre, DictGet(post_data, mac)) @@ first
        ELSE first

\* lines 367-385: the record of a MAC that only the post snapshot has
NewRecord(mac, post) ==
    ("Address"        :> Cell(PyStr(mac), "ftNormal")) @@
    ("Observation"    :> Cell(PyStr("New MAC"), "ftInfo")) @@
    ("Vendor"         :> Cell(PyStr(post["Vendor"]), "ftNormal")) @@
    ("Pre-Device"     :> Cell(Placeholder, "ftNormal")) @@
    ("Pre-Interface"  :> Cell(Placeholder, "ftNormal")) @@
    ("Pre-Speed"      :> Cell(Placeholder, "ftNormal")) @@
    ("Pre-Duplex"     :> Cell(Placeholder, "ftNormal")) @@
    ("Pre-Vlan"       :> Cell(Placeholder, "ftNormal")) @@
    ("Pre-IP"         :> Cell(Placeholder, "ftNormal")) @@
    ("Pre-Hostname"   :> Cell(Placeholder, "ftNormal")) @@
    ("Post-Device"    :> Cell(PyList(post["Switch"]), "ftNormal")) @@
    ("Post-Interface" :> Cell(PyList(post["Interface"]), "ftNormal")) @@
    ("Post-Speed"     :> Cell(PyList(post["Speed"]), "ftNormal")) @@
    ("Post-Duplex"    :> Cell(PyList(post["Duplex"]), "ftNormal")) @@
    ("Post-Vlan"      :> Cell(PyStr(post["Vlan"]), "ftNormal")) @@
    ("Post-IP"        :> Cell(PyStr(post["IP Address"]), "ftNormal")) @@
    ("Post-Hostname"  :> Cell(PyStr(post["Hostname"]), "ftNormal"))

\* the loop of line 321
RECURSIVE PreLoop(_, _, _)
PreLoop(compare, items, post_data) ==
    IF items = <<>> THEN compare
    ELSE CHOOSE r \in
            {PreLoop(c, Tail(items), post_data) :
                c \in {DictSet(compare, Head(items)[1],
                               PreRecord(Head(items)[1], Head(items)[2], post_data))}} : TRUE

\* a test that takes every MAC of the post snapshot as new
IsNewMacAlways(pre_data, mac) == TRUE

\* line 366: mac not in self.pre_snapshot_data
IsNewMac(pre_data, mac) == ~DictHas(pre_data, mac)

\* the loop of line 365
RECURSIVE PostLoop(_, _, _)
PostLoop(compare, items, pre_data) ==
    IF items = <<>> THEN compare
    ELSE CHOOSE r \in
            {PostLoop(c, Tail(items), pre_data) :
                c \in {IF IsNewMac(pre_data, Head(items)[1])
                       THEN DictSet(compare, Head(items)[1],
                                    NewRecord(Head(items)[1], Head(items)[2]))
                       ELSE compare}} : TRUE

\* the two loops in the other order
compare_snapshots_post_first(pre_data, post_data) ==
    PreLoop(PostLoop(<<>>, post_data, pre_data), pre_data, post_data)

compare_snapshots(pre_data, post_data) ==
    PostLoop(PreLoop(<<>>, pre_data, post_data), post_data, pre_data)

\* '\n'.join of a list of strs
RECURSIVE JoinLines(_)
JoinLines(l) ==
    IF l = <<>> THEN ""
    ELSE IF Len(l) = 1 THEN l[1]
    ELSE l[1] \o "\n" \o JoinLines(Tail(l))

\* '\n'.join of a list of strs kept as character sequences
RECURSIVE JoinCharLines(_)
JoinCharLines(l) ==
    IF l = <<>> THEN <<>>
    ELSE IF Len(l) = 1 THEN l[1]
    ELSE l[1] \o <<"\n">> \o JoinCharLines(Tail(l))

\* the columns whose list items are kept as character sequences
CharColumns == {"Pre-Interface", "Post-Interface"}

\* line 455: the value written to the worksheet
WrittenValue(col, value) ==
    IF value[1] = "list"
    THEN IF col \in CharColumns THEN JoinCharLines(value[2]) ELSE JoinLines(value[2])
    ELSE value[2]

\* line 433: the rows numbered from 1 in the order of compare_data
NumberedRows(compare) == [idx \in 1..Len(compare) |-> <<idx, compare[idx][2]>>]

\* lines 443-461: the data rows of the worksheet; the first is row 2
WorksheetRows(rows) ==
    [i \in 1..Len(rows) |->
        [row_idx |-> 1 + i,
         row_key |-> rows[i][1],
         cells   |-> [col \in DOMAIN rows[i][2] |->
                        [value |-> WrittenValue(col, rows[i][2][col].value),
                         cellFormat |-> rows[i][2][col].cellFormat]]]]

\* line 414: the name of the report, after the title-cased name of the
\* module's directory
ReportFileName(ts) ==
    <<"M","a","c","c","o","m","p","a","r","e","_">> \o ts \o <<".","x","l","s","x">>

(***************************************************************************)
(* CompareEvent: the worker and the slots of the form for it               *)
(***************************************************************************)
\* Form.get_selected_items for fully selected rows
get_selected_items ==
    [k \in 1..Len(selected) |->
        [name      |-> snapshots_table[selected[k]].name,
         type      |-> snapshots_table[selected[k]].type,
         timestamp |-> snapshots_table[selected[k]].timestamp,
         row       |-> selected[k]]]

\* table_menu_event, lines 186-187: Compare is enabled for two selected
\* rows of different types
CompareEnabled(sel) ==
    /\ Len(sel) = 2
    /\ snapshots_table[sel[1]].type # snapshots_table[sel[2]].type

CompareRunning ==
    cpc \in {"run", "get_mac_data", "compare_snapshots", "write_report", "return"}

\* Form.compare_start_event, after the menu was opened on rows i and j.
\* Replacing self.compare_worker while its thread runs destroys a running
\* QThread, which ends the process.
CompareStart(i, j) ==
    /\ AppAlive
    /\ i # j
    /\ CompareEnabled(<<i, j>>)
    /\ selected' = <<i, j>>
    /\ IF CompareRunning
       THEN /\ pc' = "crashed"
            /\ UNCHANGED <<cpc, pre_snapshot_data, post_snapshot_data,
                           compare_data>>
       ELSE /\ cpc' = "run"
            /\ pre_snapshot_data' = <<>>
            /\ post_snapshot_data' = <<>>
            /\ compare_data' = <<>>
            /\ UNCHANGED pc
    /\ UNCHANGED <<form_vars, env_vars, creates, run_vars, pool_vars, emitted,
                   output_report, report, report_button>>
    /\ UNCHANGED <<scan_vars, fetches, iface_vars>>

\* an exception leaves CompareEvent.run(): as for CreateEvent.run()
CompareRaises ==
    \/ /\ pc' = "crashed"
       /\ UNCHANGED <<cpc, ui_queue>>
    \/ /\ cpc' = "aborted"
       /\ ui_queue' = Append(ui_queue, [sig |-> "compare_finished"])
       /\ UNCHANGED pc

\* lines 269-270
PreSnapshot(snapshots) ==
    IF snapshots[1].type = Pre THEN snapshots[1] ELSE snapshots[2]

PostSnapshot(snapshots) ==
    IF snapshots[1].type = Post THEN snapshots[1] ELSE snapshots[2]

\* lines 273-276
SnapshotPath(snapshot) ==
    SnapshotFileName(snapshot.type, snapshot.name, snapshot.timestamp)

\* run, lines 265-280: the two artifacts are read
CompareLoad ==
    /\ AppAlive
    /\ cpc = "run"
    /\ LET snapshots == get_selected_items
           pre_path  == SnapshotPath(PreSnapshot(snapshots))
           post_path == SnapshotPath(PostSnapshot(snapshots))
       IN  IF pre_path \in DOMAIN files /\ post_path \in DOMAIN files
           THEN /\ pre_snapshot_data' = JsonLoad(files[pre_path]).endpoints
                /\ post_snapshot_data' = JsonLoad(files[post_path]).endpoints
                /\ cpc' = "get_mac_data"
                /\ UNCHANGED <<pc, ui_queue>>
           ELSE /\ CompareRaises
                /\ UNCHANGED <<pre_snapshot_data, post_snapshot_data>>
    /\ UNCHANGED <<name_line_edit, type_combobox, device_text_edit,
                   create_button, snapshots_table, env_vars, creates,
                   run_vars, pool_vars, emitted, selected, compare_data,
                   output_report, report, report_button>>
    /\ UNCHANGED <<scan_vars, fetches, iface_vars>>

\* run, line 284
GetMacData ==
    /\ AppAlive
    /\ cpc = "get_mac_data"
    /\ pre_snapshot_data' = get_mac_data(pre_snapshot_data, post_snapshot_data)[1]
    /\ post_snapshot_data' = get_mac_data(pre_snapshot_data, post_snapshot_data)[2]
    /\ cpc' = "compare_snapshots"
    /\ UNCHANGED <<form_vars, env_vars, creates, pc, run_vars, pool_vars,
                   emitted, selected, compare_data, output_report, report,
                   report_button>>
    /\ UNCHANGED <<scan_vars, fetches, iface_vars>>

\* run, line 285
CompareSnapshots ==
    /\ AppAlive
    /\ cpc = "compare_snapshots"
    /\ compare_data' = compare_snapshots(pre_snapshot_data, post_snapshot_data)
    /\ cpc' = "write_report"
    /\ UNCHANGED <<form_vars, env_vars, creates, pc, run_vars, pool_vars,
                   emitted, selected, pre_snapshot_data, post_snapshot_data,
                   output_report, report, report_button>>
    /\ UNCHANGED <<scan_vars, fetches, iface_vars>>

\* run, line 286: data[1] of line 437 raises KeyError when there is no row
WriteReport ==
    /\ AppAlive
    /\ cpc = "write_report"
    /\ output_report' = ReportFileName(strftime(clock))
    /\ IF compare_data = <<>>
       THEN /\ CompareRaises
            /\ UNCHANGED report
       ELSE /\ report' = WorksheetRows(NumberedRows(compare_data))
            /\ cpc' = "return"
            /\ UNCHANGED <<pc, ui_queue>>
    /\ UNCHANGED <<name_line_edit, type_combobox, device_text_edit,
                   create_button, snapshots_table, env_vars, creates,
                   run_vars, pool_vars, emitted, selected,
                   pre_snapshot_data, post_snapshot_data, compare_data,
                   report_button>>
    /\ UNCHANGED <<scan_vars, fetches, iface_vars>>

\* run() returns: the thread's finished signal is queued
CompareReturn ==
    /\ AppAlive
    /\ cpc = "return"
    /\ ui_queue' = Append(ui_queue, [sig |-> "compare_finished"])
    /\ cpc' = "finished"
    /\ UNCHANGED <<name_line_edit, type_combobox, device_text_edit,
                   create_button, snapshots_table, env_vars, creates, pc,
                   run_vars, pool_vars, emitted, selected,
                   pre_snapshot_data, post_snapshot_data, compare_data,
                   output_report, report, report_button>>
    /\ UNCHANGED <<scan_vars, fetches, iface_vars>>

\* Form.compare_finish_event
CompareFinish ==
    /\ AppAlive
    /\ ui_queue # <<>>
    /\ Head(ui_queue).sig = "compare_finished"
    /\ report_button' = TRUE
    /\ ui_queue' = Tail(ui_queue)
    /\ UNCHANGED <<name_line_edit, type_combobox, device_text_edit,
                   create_button, snapshots_table, env_vars, creates, pc,
                   run_vars, pool_vars, emitted, selected, cpc,
                   pre_snapshot_data, post_snapshot_data, compare_data,
                   output_report, report>>
    /\ UNCHANGED <<scan_vars, fetches, iface_vars>>

(***************************************************************************)
(* Specification.                                                          *)
(***************************************************************************)
WorkerNext ==
    \/ RunInit
    \/ LoadMacVendor
    \/ Submit
    \/ Join
    \/ PoolExit
    \/ RefactorData
    \/ SaveWrite
    \/ SaveEmit
    \/ RunReturn

TaskNext ==
    \/ \E i \in 1..Len(task) : TaskConnect(i)
    \/ \E i \in 1..Len(task) : TaskRaise(i)
    \/ \E i \in 1..Len(task), reply \in Replies : TaskCollect(i, reply)

UiNext ==
    \/ AddSnapshot
    \/ CreateFinish

\* one snapshot is created from a fresh start
Next ==
    \/ /\ creates = 0
       /\ \E n \in Names, t \in Types, lines \in DeviceTexts :
            CreateStart(n, t, lines)
    \/ WorkerNext
    \/ TaskNext
    \/ UiNext

Spec == Init /\ [][Next]_vars

\* the threads of the process are scheduled fairly, and a session attempt or
\* a command ends (with an answer or an error)
FairSpec ==
    /\ Spec
    /\ WF_vars(WorkerNext)
    /\ WF_vars(TaskNext)
    /\ WF_vars(UiNext)

CompareWorkerNext ==
    \/ CompareLoad
    \/ GetMacData
    \/ CompareSnapshots
    \/ WriteReport
    \/ CompareReturn

CompareUiNext ==
    \/ /\ cpc = "none"
       /\ \E i, j \in 1..Len(snapshots_table) : CompareStart(i, j)
    \/ CompareFinish

\* the device fields of the snapshots that are compared
StoreDeviceTexts == {<<"SW1">>, <<"SW1", "SW2">>}

\* the registry is cached and fresh
StoreInit ==
    /\ Init
    /\ vendor_file = CachedFile(0)
    /\ module_age = 0

\* snapshots are created one after another while minutes pass
StoreNext ==
    \/ /\ creates < MaxCreates
       /\ \E t \in Types, lines \in StoreDeviceTexts :
            CreateStart(<<"a">>, t, lines)
    \/ WorkerNext
    \/ TaskNext
    \/ UiNext
    \/ Tick

SpecStore == StoreInit /\ [][StoreNext]_vars

\* the type of the next snapshot: first a Pre snapshot, then a Post one
NextType == IF creates = 0 THEN Pre ELSE Post

\* a Pre and a Post snapshot are created while minutes pass, and one
\* comparison of the two is made
CompareNext ==
    \/ /\ creates < Cardinality(Types)
       /\ \E lines \in StoreDeviceTexts : CreateStart(<<"a">>, NextType, lines)
    \/ WorkerNext
    \/ TaskNext
    \/ UiNext
    \/ Tick
    \/ CompareUiNext
    \/ CompareWorkerNext

SpecCompare == StoreInit /\ [][CompareNext]_vars

(***************************************************************************)
(* normalize_iface called on a name, and again on what it returned.        *)
(***************************************************************************)
\* the characters of the names: letters of the labels in either case, a
\* letter of no label, a digit and a space
IfaceChars == {"T", "e", "w", "g", "I", "x", "1", " "}

Ifaces == SeqsUpTo(IfaceChars, MaxIfaceLen)

\* the argument of the next call
NextArgument == IF calls = <<>> THEN iface ELSE calls[Len(calls)]

\* a call that returns; a call that raises returns no value
NormalizeIface ==
    /\ Len(calls) < MaxCalls
    /\ ~NormalizeIfaceRaises(NextArgument)
    /\ calls' = Append(calls, normalize_iface(NextArgument))
    /\ UNCHANGED <<form_vars, env_vars, creates, pc, run_vars, pool_vars,
                   emitted, compare_vars, scan_vars, fetches, iface>>

IfaceInit ==
    /\ FreshForm
    /\ FreshCounts
    /\ EmptyDirectory
    /\ vendor_file = CachedFile(0)
    /\ module_age = 0
    /\ iface \in Ifaces
    /\ calls = <<>>

IfaceNext == NormalizeIface

SpecIface == IfaceInit /\ [][IfaceNext]_vars

(***************************************************************************)
(* Form.scan_snapshots: the file names of the Snapshots directory are      *)
(* searched for three bracketed groups of any characters, joined by an     *)
(* underscore and followed by .json, with the dot unescaped (line 279).    *)
(***************************************************************************)
\* the literal lit stands in text at position i
LiteralAt(text, i, lit) ==
    /\ i >= 1
    /\ i + Len(lit) - 1 <= Len(text)
    /\ SubSeq(text, i, i + Len(lit) - 1) = lit

\* `.` matches any character except a newline
DotMatches(c) == c # "\n"

\* `.*` matches text[i..j]
DotStar(text, i, j) == \A k \in i..j : DotMatches(text[k])

Separator == <<"]", "_", "[">>

\* the positions of the `]` that can close group 3 when it opens at p:
\* `\].json` is a bracket, any one character, then json
Group3Ends(text, p) ==
    {c \in p..Len(text) :
        /\ DotStar(text, p, c - 1)
        /\ text[c] = "]"
        /\ c + 1 <= Len(text)
        /\ DotMatches(text[c + 1])
        /\ LiteralAt(text, c + 2, <<"j","s","o","n">>)}

\* the positions of the `]_[` that can close group 2 when it opens at p
Group2Ends(text, p) ==
    {b \in p..Len(text) :
        /\ DotStar(text, p, b - 1)
        /\ LiteralAt(text, b, Separator)
        /\ Group3Ends(text, b + 3) # {}}

\* the positions of the `]_[` that can close group 1 when it opens at p
Group1Ends(text, p) ==
    {a \in p..Len(text) :
        /\ DotStar(text, p, a - 1)
        /\ LiteralAt(text, a, Separator)
        /\ Group2Ends(text, a + 3) # {}}

\* re.search tries the start positions from the left
MatchStarts(text) ==
    {s \in 1..Len(text) : text[s] = "[" /\ Group1Ends(text, s + 1) # {}}

MinOf(S) == CHOOSE x \in S : \A y \in S : x <= y

MaxOf(S) == CHOOSE x \in S : \A y \in S : y <= x

\* `.*` is greedy: a group ends at the last position that lets the rest of
\* the pattern match
GreedyEnd(S) == MaxOf(S)

\* the match object as the sequence of its groups: <<>> when re.search
\* returns None, else <<[type, name, timestamp]>>
re_search(file) ==
    IF MatchStarts(file) = {} THEN <<>>
    ELSE LET s == MinOf(MatchStarts(file))
             a == GreedyEnd(Group1Ends(file, s + 1))
             b == GreedyEnd(Group2Ends(file, a + 3))
             c == GreedyEnd(Group3Ends(file, b + 3))
         IN  << [type      |-> SubSeq(file, s + 1, a - 1),
                 name      |-> SubSeq(file, a + 3, b - 1),
                 timestamp |-> SubSeq(file, b + 3, c - 1)] >>

\* the scan of Form.__init__ has handled every name of the listing
ScanDone == scanned = Len(listing)

\* one pass of the loop of lines 277-288: nothing in the try block raises
\* for a str, and add_snapshot appends the row
ScanFile ==
    /\ AppAlive
    /\ scanned < Len(listing)
    /\ LET match == re_search(listing[scanned + 1])
       IN  snapshots_table' =
               IF match = <<>> THEN snapshots_table
               ELSE Append(snapshots_table,
                           [name      |-> match[1].name,
                            type      |-> match[1].type,
                            timestamp |-> match[1].timestamp])
    /\ scanned' = scanned + 1
    /\ UNCHANGED <<name_line_edit, type_combobox, device_text_edit,
                   create_button, ui_queue, env_vars, creates, pc, run_vars,
                   pool_vars, emitted, compare_vars, listing, fetches,
                   iface_vars>>

\* the orders os.listdir may return the names of a directory in
RECURSIVE Listings(_)
Listings(S) ==
    IF S = {} THEN {<<>>}
    ELSE UNION {{<<x>> \o l : l \in Listings(S \ {x})} : x \in S}

(***************************************************************************)
(* Form.delete_snapshot_event                                              *)
(***************************************************************************)
\* data.sort(key=lambda x: x['row'], reverse=True)
RECURSIVE SortByRowDescending(_)
SortByRowDescending(rows) ==
    IF rows = {} THEN <<>>
    ELSE <<MaxOf(rows)>> \o SortByRowDescending(rows \ {MaxOf(rows)})

RemoveRow(table, row) ==
    SubSeq(table, 1, row - 1) \o SubSeq(table, row + 1, Len(table))

RemoveFile(dir, path) == [f \in (DOMAIN dir) \ {path} |-> dir[f]]

\* the loop of lines 386-395 over the rows still to handle: the file and
\* the row are removed when the file exists, else the row stays
RECURSIVE DeleteRows(_, _)
DeleteRows(st, rows) ==
    IF rows = <<>> THEN st
    ELSE LET row  == Head(rows)
             path == SnapshotPath(st.table[row])
         IN  CHOOSE r \in
               {DeleteRows(n, Tail(rows)) :
                  n \in {IF path \in DOMAIN st.dir
                         THEN [dir   |-> RemoveFile(st.dir, path),
                               table |-> RemoveRow(st.table, row),
                               kept  |-> [k \in 1..Len(st.kept) |-> st.kept[k] - 1]]
                         ELSE [st EXCEPT !.kept = <<row>> \o st.kept]}} : TRUE

\* the sets of rows the user may have selected
Selections ==
    {s \in SUBSET (1..Len(snapshots_table)) :
        Cardinality(s) >= 1 /\ Cardinality(s) <= MaxSelected}

\* Delete of the context menu on the selected rows
DeleteSnapshot(sel) ==
    /\ AppAlive
    /\ LET after == DeleteRows([dir |-> files, table |-> snapshots_table,
                                kept |-> <<>>],
                               SortByRowDescending(sel))
       IN  /\ files' = after.dir
           /\ snapshots_table' = after.table
           \* the rows that were not removed stay selected
           /\ selected' = after.kept
    /\ UNCHANGED <<name_line_edit, type_combobox, device_text_edit,
                   create_button, ui_queue, clock, vendor_file, module_age,
                   creates, pc, run_vars, pool_vars, emitted, cpc,
                   pre_snapshot_data, post_snapshot_data, compare_data,
                   output_report, report, report_button, scan_vars, fetches,
                   iface_vars>>

(***************************************************************************)
(* The application is closed and started again: Form.__init__ builds a     *)
(* new form and scans the directory as the earlier session left it.        *)
(***************************************************************************)
\* no worker thread is running and no signal waits for its slot
Quiescent ==
    /\ AppAlive
    /\ ScanDone
    /\ pc \in {"none", "finished", "aborted"}
    /\ cpc \in {"none", "finished", "aborted"}
    /\ ui_queue = <<>>

Restart ==
    /\ Quiescent
    /\ name_line_edit' = <<>>
    /\ type_combobox' = Pre
    /\ device_text_edit' = <<>>
    /\ create_button' = TRUE
    /\ snapshots_table' = <<>>
    /\ ui_queue' = <<>>
    /\ pc' = "none"
    /\ self_name' = <<>>
    /\ self_type' = <<>>
    /\ self_devices' = <<>>
    /\ data' = [endpoints |-> <<>>]
    /\ oui_data' = <<>>
    /\ timestamp' = <<>>
    /\ futures' = <<>>
    /\ joined' = 0
    /\ task' = <<>>
    /\ done_order' = <<>>
    /\ selected' = <<>>
    /\ cpc' = "none"
    /\ pre_snapshot_data' = <<>>
    /\ post_snapshot_data' = <<>>
    /\ compare_data' = <<>>
    /\ output_report' = <<>>
    /\ report' = <<>>
    /\ report_button' = FALSE
    /\ listing' \in Listings(DOMAIN files)
    /\ scanned' = 0
    /\ UNCHANGED <<env_vars, creates, emitted, fetches, iface_vars>>

(***************************************************************************)
(* Sessions over a Snapshots directory that earlier sessions and other     *)
(* programs left files in.                                                 *)
(***************************************************************************)
\* names typed into the name field: a letter, and a name with brackets
DirectoryNames == {<<"a">>, <<"a", "]", "_", "[", "b">>}

\* a snapshot of an earlier session
OldSnapshot == SnapshotFileName(Pre, <<"a">>, strftime(0))

\* a copy of it that a backup program left next to it
BackupCopy == OldSnapshot \o <<".", "b", "a", "k">>

\* a file of another program
OtherFile == <<"n", "o", "t", "e", "s", ".", "t", "x", "t">>

\* the artifact of a run in which no device answered
EmptyDocument == JsonDump([endpoints |-> <<>>])

\* what the directory may hold when the application starts
Directories ==
    {[f \in S |-> EmptyDocument] : S \in SUBSET {OldSnapshot, BackupCopy, OtherFile}}

DirectoryInit ==
    /\ FreshForm
    /\ FreshCounts
    /\ NoCalls
    /\ vendor_file = CachedFile(0)
    /\ module_age = 0
    /\ files \in Directories
    /\ listing \in Listings(DOMAIN files)
    /\ scanned = 0

\* one snapshot is created; the user works on the table, and time passes,
\* between two operations
DirectoryNext ==
    \/ ScanFile
    \/ /\ ScanDone
       /\ creates = 0
       /\ \E n \in DirectoryNames, t \in Types : CreateStart(n, t, <<"SW1">>)
    \/ WorkerNext
    \/ TaskNext
    \/ UiNext
    \/ /\ Quiescent
       /\ Tick
    \/ /\ Quiescent
       /\ \E sel \in Selections : DeleteSnapshot(sel)
    \/ Restart

SpecDirectory == DirectoryInit /\ [][DirectoryNext]_vars

(***************************************************************************)
(* Comparisons over snapshots that earlier sessions saved, while other     *)
(* programs may remove files of the directory.                             *)
(***************************************************************************)
\* the artifact of a run over SW1 that the device answered with reply
SavedDocument(reply) ==
    JsonDump([endpoints |->
        refactor_data(<<"SW1">>,
            DictSet(<<>>, PyStr("SW1"),
                    EndpointData("SW1", reply, OuiCached)))])

\* a Post snapshot of an earlier session
OldPostSnapshot == SnapshotFileName(Post, <<"a">>, strftime(0))

\* a Pre snapshot that was saved under a name with brackets
BracketSnapshot ==
    SnapshotFileName(Pre, <<"a", "]", "_", "[", "b">>, strftime(0))

SavedDirectory ==
    (OldSnapshot :> SavedDocument(ReplyA)) @@
    (OldPostSnapshot :> SavedDocument(ReplyB)) @@
    (BracketSnapshot :> SavedDocument(ReplyB))

\* a file of the directory is removed from outside the application
RemoveArtifact(path) ==
    /\ path \in DOMAIN files
    /\ files' = RemoveFile(files, path)
    /\ UNCHANGED <<form_vars, clock, vendor_file, module_age, creates, pc,
                   run_vars, pool_vars, emitted, compare_vars, scan_vars,
                   fetches, iface_vars>>

SelectInit ==
    /\ FreshForm
    /\ FreshCounts
    /\ NoCalls
    /\ vendor_file = CachedFile(0)
    /\ module_age = 0
    /\ files = SavedDirectory
    /\ listing \in Listings(DOMAIN files)
    /\ scanned = 0

\* after the scan one comparison is requested
SelectNext ==
    \/ ScanFile
    \/ /\ ScanDone
       /\ cpc = "none"
       /\ \E i, j \in 1..Len(snapshots_table) : CompareStart(i, j)
    \/ CompareWorkerNext
    \/ CompareFinish
    \/ \E path \in DOMAIN files : RemoveArtifact(path)

SpecSelect == SelectInit /\ [][SelectNext]_vars

(***************************************************************************)
(* Properties of the snapshot builder.                                     *)
(***************************************************************************)
AllMacs == {M1, M2, M3}

\* refactor_data has run
AfterRefactor == pc \in {"save_snapshot", "emit", "return", "finished"}

\* save_snapshot has written the artifact
AfterSave == pc \in {"emit", "return", "finished"}

Wrote(i) == task[i].st = "written"

\* what the task of list entry i reported: its own endpoint data
OwnResults ==
    [i \in 1..Len(task) |-> IF Wrote(i) THEN task[i].endpoint_data ELSE <<>>]

\* the list entries whose task reported mac, in device-list order
RECURSIVE ReportersFrom(_, _)
ReportersFrom(i, mac) ==
    IF i > Len(task) THEN <<>>
    ELSE IF DictHas(OwnResults[i], mac)
         THEN <<i>> \o ReportersFrom(i + 1, mac)
         ELSE ReportersFrom(i + 1, mac)

Reporters(mac) == ReportersFrom(1, mac)

\* the rows of the consolidated snapshot that carry mac
RowsOf(mac) ==
    {i \in 1..Len(data.endpoints) : data.endpoints[i][2]["MAC Address"] = mac}

RowOf(mac) == data.endpoints[CHOOSE i \in RowsOf(mac) : TRUE][2]

ParallelFields == {"Switch", "Interface", "Speed", "Duplex"}

\* C1: after consolidation, for every MAC the four lists of its record have
\* one entry per device-list entry that reported the MAC, and entry k of each
\* list is what the k-th such entry, in device-list order, reported.
C1_ParallelListsPerReporter ==
    AfterRefactor =>
        \A mac \in AllMacs :
            LET rep == Reporters(mac)
            IN  IF rep = <<>> THEN RowsOf(mac) = {}
                ELSE /\ Cardinality(RowsOf(mac)) = 1
                     /\ \A f \in ParallelFields :
                          /\ Len(RowOf(mac)[f]) = Len(rep)
                          /\ \A k \in 1..Len(rep) :
                               RowOf(mac)[f][k] = DictGet(OwnResults[rep[k]], mac)[f]

\* every entry of the device list for one device got the same answer
PerDeviceFixed ==
    \A i, j \in 1..Len(task) :
        task[i].device = task[j].device =>
            /\ Wrote(i) = Wrote(j)
            /\ OwnResults[i] = OwnResults[j]

RECURSIVE ConsolidateFrom(_, _)
ConsolidateFrom(acc, i) ==
    IF i > Len(task) THEN acc
    ELSE CHOOSE r \in
            {ConsolidateFrom(a, i + 1) : a \in {RefactorItems(acc, OwnResults[i])}} : TRUE

\* the consolidation of the tasks' own results taken in device-list order
SequentialSnapshot ==
    ConsolidateFrom([ep_idx |-> 0, mac_to_index |-> <<>>, refactored |-> <<>>],
                    1).refactored

\* C2: with the answer of every device fixed, the consolidated endpoint map
\* (row keys, row order, order inside the lists) is the one obtained by
\* taking the devices one after the other in device-list order, whatever the
\* order in which the concurrent tasks finished.
C2_DeterministicConsolidation ==
    (AfterRefactor /\ PerDeviceFixed) => data.endpoints = SequentialSnapshot

\* two devices answered, the second finished first
C2_Witness ==
    /\ AfterRefactor
    /\ PerDeviceFixed
    /\ Len(task) = 2
    /\ task[1].device # task[2].device
    /\ Wrote(1) /\ Wrote(2)
    /\ done_order = <<2, 1>>
    /\ Len(data.endpoints) >= 2

Failed(i) == task[i].st \in {"conn_failed", "raised"}

\* the record of mac holds, at one index of its four lists, what entry i
\* reported for mac
Present(i, mac) ==
    /\ RowsOf(mac) # {}
    /\ \E k \in 1..Len(RowOf(mac)["Switch"]) :
         \A f \in ParallelFields :
            /\ k <= Len(RowOf(mac)[f])
            /\ RowOf(mac)[f][k] = DictGet(OwnResults[i], mac)[f]

\* C3: when the task of a device fails (no session, or an exception after
\* the session), it adds no observation to the snapshot, every other task has
\* run to completion and every endpoint a task reported is in the snapshot.
C3_FailureIsolation ==
    (AfterRefactor /\ \E i \in 1..Len(task) : Failed(i)) =>
        /\ Len(task) = Len(self_devices)
        /\ \A i \in 1..Len(task) : Finished(task[i])
        /\ \A mac \in AllMacs :
             /\ \A r \in RowsOf(mac) :
                  Len(data.endpoints[r][2]["Switch"]) = Len(Reporters(mac))
             /\ \A i \in 1..Len(task) :
                  DictHas(OwnResults[i], mac) => Present(i, mac)

\* the artifact named after this run holds the document of self.data
ArtifactWritten ==
    LET fn == SnapshotFileName(self_type, self_name, timestamp)
    IN  /\ fn \in DOMAIN files
        /\ files[fn] = JsonDump(data)

\* C4: whichever tasks fail, once the registry is loaded the run reaches the
\* save step, writes the artifact and announces the snapshot exactly once,
\* and never announces it before the artifact is written.
C4_AlwaysSavesAndAnnouncesOnce ==
    /\ [](pc = "thread_executor" =>
            <>(pc = "finished" /\ emitted = 1 /\ ArtifactWritten))
    /\ [](emitted <= 1)
    /\ [](emitted = 1 => ArtifactWritten)

\* a run in which every device failed has saved and announced
C4_Witness ==
    /\ pc = "finished"
    /\ emitted = 1
    /\ ArtifactWritten
    /\ Len(task) = 2
    /\ task[1].st = "raised"
    /\ task[2].st = "conn_failed"

\* what CompareEvent.run reads back from the artifact of this run
ReadBack ==
    JsonLoad(files[SnapshotFileName(self_type, self_name, timestamp)]).endpoints

\* C9 as claimed: the endpoint map read back from the artifact equals the
\* endpoint map the builder serialized, row keys included.
C9_RoundTripEqual ==
    AfterSave => ReadBack = data.endpoints

\* C9: the endpoint map read back from the artifact has the rows of the
\* serialized map in the same order with equal records, and each row key is
\* the decimal string of the integer key the builder used.
C9_RoundTripUpToKeyType ==
    AfterSave =>
        /\ Len(ReadBack) = Len(data.endpoints)
        /\ \A i \in 1..Len(ReadBack) :
             /\ ReadBack[i][2] = data.endpoints[i][2]
             /\ data.endpoints[i][1][1] = "int"
             /\ ReadBack[i][1] = PyStr(IntToStr(data.endpoints[i][1][2]))

\* a snapshot of several rows, one of them seen on two devices, was saved
C9_Witness ==
    /\ AfterSave
    /\ Len(data.endpoints) >= 2
    /\ \E i \in 1..Len(data.endpoints) : Len(data.endpoints[i][2]["Switch"]) = 2

(***************************************************************************)
(* Properties of the comparator.                                           *)
(***************************************************************************)
\* compare_snapshots has run on the two snapshots that were read
Compared == cpc \in {"write_report", "return", "finished"}

PreMacs == SeqToSet(DictKeys(pre_snapshot_data))

PostMacs == SeqToSet(DictKeys(post_snapshot_data))

\* the MAC Address column of a snapshot's rows, in row order
MacColumn(snapshot_data) ==
    [i \in 1..Len(snapshot_data) |-> snapshot_data[i][2]["MAC Address"]]

\* the step of line 284, from the snapshots as read to the snapshots by MAC
ReKeyed == cpc = "get_mac_data" /\ cpc' = "compare_snapshots"

RecordOf(mac) == DictGet(compare_data, mac)

ExpectedObservation(mac) ==
    IF mac \notin PostMacs THEN "MAC Not Learnt"
    ELSE IF mac \notin PreMacs THEN "New MAC"
    ELSE "MAC Learnt"

\* C5: the comparison has exactly one record for every MAC of the Pre or
\* the Post snapshot and no other record, and the record's observation is
\* MAC Not Learnt for a MAC of Pre only, New MAC for a MAC of Post only and
\* MAC Learnt for a MAC of both; the MACs of a snapshot are the MAC
\* addresses of the rows that were read from its artifact.
C5_OneRecordPerMacWithObservation ==
    /\ [](Compared =>
            /\ \A i, j \in 1..Len(compare_data) :
                 compare_data[i][1] = compare_data[j][1] => i = j
            /\ SeqToSet(DictKeys(compare_data)) = PreMacs \cup PostMacs
            /\ \A mac \in PreMacs \cup PostMacs :
                 /\ RecordOf(mac)["Address"].value = PyStr(mac)
                 /\ RecordOf(mac)["Observation"].value =
                      PyStr(ExpectedObservation(mac)))
    /\ [][ReKeyed =>
            /\ SeqToSet(DictKeys(pre_snapshot_data')) =
                 SeqToSet(MacColumn(pre_snapshot_data))
            /\ SeqToSet(DictKeys(post_snapshot_data')) =
                 SeqToSet(MacColumn(post_snapshot_data))]_vars

\* a comparison with a MAC of Pre only, a MAC of Post only and a MAC of both
C5_Witness ==
    /\ Compared
    /\ PreMacs \ PostMacs # {}
    /\ PostMacs \ PreMacs # {}
    /\ PreMacs \cap PostMacs # {}

\* the attributes that are matched, with the column of the Post cell
MatchedAttributes ==
    {<<"Speed", "Post-Speed">>, <<"Duplex", "Post-Duplex">>,
     <<"Vlan", "Post-Vlan">>, <<"IP Address", "Post-IP">>,
     <<"Hostname", "Post-Hostname">>}

PreOf(mac) == DictGet(pre_snapshot_data, mac)

PostOf(mac) == DictGet(post_snapshot_data, mac)

\* C6: for every MAC of both snapshots and every attribute X of Speed,
\* Duplex, Vlan, IP Address and Hostname, the Post-X cell of the record
\* holds the Post value, with style Normal when the Pre value equals the
\* Post value and style Bad when they differ; the lists of Speed and Duplex
\* are equal when they are equal as whole lists.
C6_PostCellStyledByEquality ==
    Compared =>
        \A mac \in PreMacs \cap PostMacs : \A x \in MatchedAttributes :
            /\ RecordOf(mac)[x[2]].value[2] = PostOf(mac)[x[1]]
            /\ RecordOf(mac)[x[2]].cellFormat =
                 IF PreOf(mac)[x[1]] = PostOf(mac)[x[1]]
                 THEN "ftNormal" ELSE "ftBad"

\* a MAC of both snapshots with an attribute that is equal, an attribute
\* that differs, and Speed lists of several devices that have the same
\* members and differ as lists
C6_Witness ==
    /\ Compared
    /\ \E mac \in PreMacs \cap PostMacs :
         /\ \E x \in MatchedAttributes : PreOf(mac)[x[1]] = PostOf(mac)[x[1]]
         /\ \E x \in MatchedAttributes : PreOf(mac)[x[1]] # PostOf(mac)[x[1]]
    /\ \E mac \in PreMacs \cap PostMacs :
         /\ Len(PreOf(mac)["Speed"]) > 1
         /\ PreOf(mac)["Speed"] # PostOf(mac)["Speed"]
         /\ SeqToSet(PreOf(mac)["Speed"]) = SeqToSet(PostOf(mac)["Speed"])

\* the MACs of the Post snapshot that the Pre snapshot lacks, in Post order
PostOnlyMacs ==
    SelectSeq(DictKeys(post_snapshot_data), LAMBDA mac : mac \notin PreMacs)

\* C7: the rows of the comparison are the Pre MACs in the order of the Pre
\* snapshot followed by the Post-only MACs in the order of the Post
\* snapshot, whatever the MAC values are, and the report numbers the rows
\* 1..N in that order.
C7_RowsInPreThenPostOrder ==
    /\ [](Compared =>
            DictKeys(compare_data) = DictKeys(pre_snapshot_data) \o PostOnlyMacs)
    /\ [](cpc \in {"return", "finished"} =>
            /\ Len(report) = Len(compare_data)
            /\ \A i \in 1..Len(report) :
                 /\ report[i].row_key = i
                 /\ report[i].cells["Address"].value = compare_data[i][1])
    /\ [][ReKeyed =>
            /\ DictKeys(pre_snapshot_data') = MacColumn(pre_snapshot_data)
            /\ DictKeys(post_snapshot_data') = MacColumn(post_snapshot_data)]_vars

\* s is before t in the order of the characters' places in `order`
RECURSIVE CharsLess(_, _, _)
CharsLess(s, t, order) ==
    IF s = <<>> THEN t # <<>>
    ELSE IF t = <<>> THEN FALSE
    ELSE IF Head(s) = Head(t) THEN CharsLess(Tail(s), Tail(t), order)
    ELSE (CHOOSE i \in 1..Len(order) : order[i] = Head(s)) <
         (CHOOSE i \in 1..Len(order) : order[i] = Head(t))

\* a report of several rows whose order is not the order of the MAC values:
\* a larger MAC is before a smaller one among the Pre rows, and a Post-only
\* MAC that is smaller than both is after them
C7_Witness ==
    /\ cpc = "finished"
    /\ Len(pre_snapshot_data) >= 2
    /\ PostOnlyMacs # <<>>
    /\ CharsLess(pre_snapshot_data[2][1], pre_snapshot_data[1][1],
                 <<".">> \o DigitChars \o LowerChars)
    /\ CharsLess(PostOnlyMacs[1], pre_snapshot_data[2][1],
                 <<".">> \o DigitChars \o LowerChars)
    /\ Len(report) = Len(pre_snapshot_data) + Len(PostOnlyMacs)

\* the seven attributes with their Pre and Post columns
SideColumns ==
    {<<"Switch", "Pre-Device", "Post-Device">>,
     <<"Interface", "Pre-Interface", "Post-Interface">>,
     <<"Speed", "Pre-Speed", "Post-Speed">>,
     <<"Duplex", "Pre-Duplex", "Post-Duplex">>,
     <<"Vlan", "Pre-Vlan", "Post-Vlan">>,
     <<"IP Address", "Pre-IP", "Post-IP">>,
     <<"Hostname", "Pre-Hostname", "Post-Hostname">>}

\* C8: for a MAC of Pre only the seven Post cells hold the unknown
\* placeholder and the seven Pre cells hold the Pre values; for a MAC of
\* Post only the seven Pre cells hold the unknown placeholder and the seven
\* Post cells hold the Post values with style Normal.
C8_PlaceholdersForMissingSide ==
    Compared =>
        /\ \A mac \in PreMacs \ PostMacs : \A c \in SideColumns :
             /\ RecordOf(mac)[c[3]].value = PyStr("???")
             /\ RecordOf(mac)[c[2]].value[2] = PreOf(mac)[c[1]]
        /\ \A mac \in PostMacs \ PreMacs : \A c \in SideColumns :
             /\ RecordOf(mac)[c[2]].value = PyStr("???")
             /\ RecordOf(mac)[c[3]].value[2] = PostOf(mac)[c[1]]
             /\ RecordOf(mac)[c[3]].cellFormat = "ftNormal"

\* a comparison with a MAC of Pre only and a MAC of Post only, each seen on
\* a device with known speed
C8_Witness ==
    /\ Compared
    /\ \E mac \in PreMacs \ PostMacs : PreOf(mac)["Speed"] # <<"">>
    /\ \E mac \in PostMacs \ PreMacs : PostOf(mac)["Vlan"] # ""

(***************************************************************************)
(* Properties of the stored artifacts.                                     *)
(***************************************************************************)
\* C10: an artifact that is persisted is never changed or replaced by a
\* later create: every file of the Snapshots directory keeps its content
\* in every step.
C10_PersistedArtifactImmutable ==
    [][\A f \in DOMAIN files : f \in DOMAIN files' /\ files'[f] = files[f]]_vars

(***************************************************************************)
(* Properties of the vendor registry.                                      *)
(***************************************************************************)
\* C11: a failure while the vendor registry is refreshed does not end the
\* build pipeline: every step that load_mac_vendor takes leads on to the
\* collection from the devices.
C11_RefreshFailureDoesNotEndPipeline ==
    [][pc = "load_mac_vendor" => pc' \in {"load_mac_vendor", "thread_executor"}]_vars

\* C15: the registry is fetched from the remote source if and only if the
\* cache artifact is missing or the cache artifact is older than 90 days.
C15_FetchIffCacheMissingOrOld ==
    [][pc = "load_mac_vendor" /\ pc' # pc =>
        ((fetches' = fetches + 1) <=>
            (~vendor_file.exists \/ vendor_file.age > StaleDays))]_vars

(***************************************************************************)
(* Properties of normalize_iface.                                          *)
(***************************************************************************)
\* a name in canonical form: a label as the list spells it, then an
\* identifier that starts with a digit and holds no whitespace
IsCanonical(name) ==
    \E i \in 1..Len(labels) :
        /\ StartsWith(name, labels[i])
        /\ Len(name) > Len(labels[i])
        /\ IsDigit(name[Len(labels[i]) + 1])
        /\ \A j \in 1..Len(name) : ~IsSpace(name[j])

\* C14: normalize_iface is idempotent: on every name on which it returns a
\* value, calling it on that value returns the value again; a name in
\* canonical form and a name with no recognized prefix are returned
\* unchanged.
C14_NormalizeIfaceIdempotent ==
    /\ \A k \in 2..Len(calls) : calls[k] = calls[1]
    /\ Len(calls) >= 1 /\ IsCanonical(iface) => calls[1] = iface
    /\ Len(calls) >= 1 /\ ~AnyLabelMatches(iface) => calls[1] = iface

\* a name that the first call changed (other case, or characters dropped)
\* and that was normalized again
C14_Witness ==
    /\ Len(calls) >= 2
    /\ calls[1] # iface
    /\ Len(calls[1]) < Len(iface)

(***************************************************************************)
(* Properties of the concurrent phase.                                     *)
(***************************************************************************)
\* thread_executor has returned
AfterPool == pc \in {"refactor_data", "save_snapshot", "emit", "return", "finished"}

\* C16: consolidation starts only after every dispatched device task has
\* finished (returned or raised): once thread_executor has returned, every
\* device of the list has a task and every task has finished, so no task
\* writes its results after refactor_data has begun to read them.
C16_ConsolidationAfterAllTasks ==
    AfterPool =>
        /\ Len(task) = Len(self_devices)
        /\ \A i \in 1..Len(task) : Finished(task[i])

\* consolidation is about to start for a list that names one device twice;
\* the task of the second line finished first and the task of the first
\* line, whose future the dict no longer holds, wrote its results
C16_Witness ==
    /\ pc = "refactor_data"
    /\ Len(task) = 2
    /\ task[1].device = task[2].device
    /\ done_order = <<2, 1>>
    /\ Wrote(1)

\* C17: no two device tasks write the same entry of the per-device results:
\* two tasks that wrote their results wrote them under different devices.
C17_TasksWriteOwnSlot ==
    \A i, j \in 1..Len(task) :
        i # j /\ Wrote(i) /\ Wrote(j) => task[i].device # task[j].device

(***************************************************************************)
(* Properties of the snapshots table and the directory.                    *)
(***************************************************************************)
\* the timestamps a snapshot can be saved under
Timestamps == {strftime(m) : m \in 0..MaxClock}

\* file is the name save_snapshot gives to a snapshot of some identity
WellFormed(file) ==
    \E t \in Types, n \in DirectoryNames, ts \in Timestamps :
        file = SnapshotFileName(t, n, ts)

\* the scan handles the next name of the listing
ScanStep == scanned' = scanned + 1

\* C13: a file whose name does not encode a (type, name, timestamp) triple
\* adds no row to the snapshots table when the scan handles it, and a
\* well-formed file adds a row, wherever the files stand in the listing.
C13_MalformedNameSkipped ==
    [][ScanStep =>
         IF WellFormed(listing[scanned + 1])
         THEN Len(snapshots_table') = Len(snapshots_table) + 1
         ELSE snapshots_table' = snapshots_table]_vars

\* C20: a scan parses the file name of a snapshot saved under (type, name,
\* timestamp) back to that triple, for every non-empty name of the form:
\* the row the scan adds for the file holds that type, name and timestamp.
C20_FilenameRoundTrip ==
    [][\A t \in Types, n \in DirectoryNames, ts \in Timestamps :
         ScanStep /\ listing[scanned + 1] = SnapshotFileName(t, n, ts) =>
             snapshots_table' =
                 Append(snapshots_table,
                        [name |-> n, type |-> t, timestamp |-> ts])]_vars

\* the rows of the table are pairwise distinct
RowsDistinct ==
    \A i, j \in 1..Len(snapshots_table) :
        i # j => snapshots_table[i] # snapshots_table[j]

\* the snapshot files of the directory
SnapshotFiles == {f \in DOMAIN files : WellFormed(f)}

\* C19: when the scan, a creation or a deletion is over, the rows of the
\* snapshots table are pairwise distinct triples and name exactly the
\* snapshot files of the directory: every row has its file and every
\* snapshot file has its row.
C19_TableMatchesDirectory ==
    Quiescent =>
        /\ RowsDistinct
        /\ {SnapshotPath(snapshots_table[i]) : i \in 1..Len(snapshots_table)}
               = SnapshotFiles

(***************************************************************************)
(* Properties of a comparison request.                                     *)
(***************************************************************************)
\* run() ended with an exception before write_report chose the report path:
\* one of the two artifacts could not be opened
LoadFailed == cpc = "aborted" /\ output_report = <<>>

\* C12: when one of the two selected artifacts is missing, the comparison
\* is aborted: no comparison table is built, no report is written, and the
\* form does not announce completion (compare_finish_event, which shows
\* "Task completed!!" and enables the Report button, does not run).
C12_MissingArtifactAbortsUntold ==
    LoadFailed =>
        /\ compare_data = <<>>
        /\ report = <<>>
        /\ ~report_button

\* the file names run() opens as the Pre and the Post side for a selection
SidesFor(sel) ==
    LET snapshots == [k \in 1..2 |-> snapshots_table[sel[k]]]
    IN  <<SnapshotPath(PreSnapshot(snapshots)),
          SnapshotPath(PostSnapshot(snapshots))>>

\* C18: a comparison of two selected snapshots of different types loads the
\* same Pre side and the same Post side whichever of the two the selection
\* returned first: what run() has read is what it would have read for the
\* selection in the other order.
C18_SelectionOrderIrrelevant ==
    [][cpc = "run" /\ cpc' = "get_mac_data" =>
         LET sides == SidesFor(<<selected[2], selected[1]>>)
         IN  /\ sides[1] \in DOMAIN files
             /\ sides[2] \in DOMAIN files
             /\ pre_snapshot_data' = JsonLoad(files[sides[1]]).endpoints
             /\ post_snapshot_data' = JsonLoad(files[sides[2]]).endpoints]_vars

====
